---------------------------- MODULE Spec2Model ----------------------------
(***************************************************************************)
(* A model of the burst-range extraction, the goodness-of-fit statistics,  *)
(* the parameter-vector slicing and the batch loop of the FRB fitting      *)
(* scripts (src/utils.py, src/plot_fit.py).                                *)
(*                                                                         *)
(* Real numbers are exact rationals here.  An area fraction is             *)
(* area / AreaDen, an extra width is extra_width / EwDen, and every        *)
(* comparison of the code is cross-multiplied so that only integers are    *)
(* compared.  Floating-point rounding is not modelled.                     *)
(***************************************************************************)
EXTENDS Integers, Sequences, FiniteSets, TLC

\* ------------------------------------------------------------- bounds
MaxLen == 4        \* longest sample array (ys, xs)
MaxVal == 2        \* samples are drawn from -1 .. MaxVal
AreaDen == 4       \* area fractions are k / AreaDen, 0 < k < AreaDen
EwDen == 2         \* extra widths are k / EwDen, 0 <= k <= EwDen + 1
MaxArgs == 7       \* longest parameter vector
MaxInputs == 2     \* longest list of input paths

Vals == -1 .. MaxVal
StatVals == 0 .. 1
ScanCap == MaxLen + 2

VARIABLES
    fn,           \* the function being executed
    pc,           \* the position inside it
    ys,           \* intensity samples (raw_burst_range, rsquared)
    cdf,          \* cdf[j] = integral(xs[j-1], *params) (model_burst_range)
    fit,          \* fit[j] = exgauss(xs[j-1], *params) (rsquared)
    area,         \* numerator of the area fraction
    extra_width,  \* numerator of the extra width
    i,            \* the scan index / range variable
    low,          \* the located lower index
    ret,          \* the outcome of the call
    args,         \* the flat parameter vector
    terms,        \* the argument tuples of the terms summed so far
    rs,           \* rsquared's value
    inputs,       \* the CLI's input paths, each with what is wrong with it
    line,         \* plot_fit.py's current line
    attempted     \* how many inputs the batch loop has started on

vars == <<fn, pc, ys, cdf, fit, area, extra_width, i, low, ret, args, terms,
          rs, inputs, line, attempted>>

\* ------------------------------------------------------------ helpers
SeqsUpTo(S, n) == UNION {[1 .. k -> S] : k \in 0 .. n}

Min(a, b) == IF a <= b THEN a ELSE b

Max(a, b) == IF a >= b THEN a ELSE b

RECURSIVE SumSeq(_)
SumSeq(s) == IF s = <<>> THEN 0 ELSE s[1] + SumSeq(Tail(s))

\* Python's s[a:b] for 0 <= a: the slice stops at the end of s.
Slice(s, a, b) == SubSeq(s, a + 1, Min(b, Len(s)))

\* Twice np.trapz(s) with unit spacing: the sum of s[j] + s[j+1].
\* It is 0 for an empty and for a one-element array.
Trapz2(s) == SumSeq([j \in 1 .. (Len(s) - 1) |-> s[j] + s[j + 1]])

NoRet == [kind |-> "none", low |-> 0, high |-> 0, exc |-> "none"]

Return(l, h) == [kind |-> "return", low |-> l, high |-> h, exc |-> "none"]

Raise(e) == [kind |-> "error", low |-> 0, high |-> 0, exc |-> e]

\* ---------------------------------------------------- area thresholds
\* (1 - area) / 2 * total_area, scaled by 2 * AreaDen.
low_area(total_area, a) == (AreaDen - a) * total_area

\* A faulty upper threshold: (1 + area) * total_area, the halving left out.
HighAreaNoHalf(total_area, a) == 2 * (AreaDen + a) * total_area

\* A faulty upper threshold: the lower one, (1 - area) / 2 * total_area.
HighAreaAsLow(total_area, a) == (AreaDen - a) * total_area

\* (1 + area) / 2 * total_area, scaled by 2 * AreaDen.
high_area(total_area, a) == (AreaDen + a) * total_area

\* cum < threshold, cum unscaled and threshold scaled by 2 * AreaDen.
Below(cum, threshold) == 2 * AreaDen * cum < threshold

\* ---------------------------------------------------- raw_burst_range
RawTotal == Trapz2(ys)

\* Twice np.trapz(ys[:i]).
RawPrefix(k) == Trapz2(Slice(ys, 0, k))

\* Line 47: while np.trapz(ys[:i]) < low_area: i += 1 ; low = i
RawLowScan ==
    /\ fn = "raw_burst_range" /\ pc = "low_scan"
    /\ IF Below(RawPrefix(i), low_area(RawTotal, area))
       THEN /\ i < ScanCap
            /\ i' = i + 1
            /\ UNCHANGED <<pc, low>>
       ELSE /\ low' = i
            /\ pc' = "high_scan"
            /\ UNCHANGED i
    /\ UNCHANGED <<fn, ys, cdf, fit, area, extra_width, ret, args, terms, rs,
                   inputs, line, attempted>>

\* max(0, low - width), scaled by EwDen.
RawLowBound(l, h) == Max(0, l * EwDen - (h - l) * extra_width)

\* A faulty upper bound: i + width, not clamped to len(ys).
RawHighUnclamped(l, h) == h * EwDen + (h - l) * extra_width

\* min(len(ys), i + width), scaled by EwDen.
RawHighBound(l, h) == Min(Len(ys) * EwDen, h * EwDen + (h - l) * extra_width)

\* Lines 49-51: while np.trapz(ys[:i]) < high_area: i += 1 ; return
RawHighScan ==
    /\ fn = "raw_burst_range" /\ pc = "high_scan"
    /\ IF Below(RawPrefix(i), high_area(RawTotal, area))
       THEN /\ i < ScanCap
            /\ i' = i + 1
            /\ UNCHANGED <<pc, ret>>
       ELSE /\ ret' = Return(RawLowBound(low, i), RawHighBound(low, i))
            /\ pc' = "done"
            /\ UNCHANGED i
    /\ UNCHANGED <<fn, ys, cdf, fit, area, extra_width, low, args, terms, rs,
                   inputs, line, attempted>>

\* -------------------------------------------------- model_burst_range
\* A faulty read: an index past the end reads the last element.
ReadClamped(k) == [ok |-> TRUE, v |-> cdf[Min(k, Len(cdf) - 1) + 1]]

\* integral(xs[k], *params) for a 0-based k >= 0: xs[k] is an IndexError
\* past the end of xs.
Read(k) ==
    IF k < Len(cdf) THEN [ok |-> TRUE, v |-> cdf[k + 1]]
    ELSE [ok |-> FALSE, v |-> 0]

\* integral(xs[-1], *params)
ModelTotal == cdf[Len(cdf)]

\* Lines 59-63: total_area = integral(xs[-1], *params) ; i = 0
ModelStart ==
    /\ fn = "model_burst_range" /\ pc = "start"
    /\ IF Len(cdf) = 0
       THEN /\ ret' = Raise("IndexError")
            /\ pc' = "done"
       ELSE /\ pc' = "low_scan"
            /\ UNCHANGED ret
    /\ UNCHANGED <<fn, ys, cdf, fit, area, extra_width, i, low, args, terms,
                   rs, inputs, line, attempted>>

\* Lines 64-65: while integral(xs[i], *params) < low_area: i += 1 ; low = i
ModelLowScan ==
    /\ fn = "model_burst_range" /\ pc = "low_scan"
    /\ IF ~Read(i).ok
       THEN /\ ret' = Raise("IndexError")
            /\ pc' = "done"
            /\ UNCHANGED <<i, low>>
       ELSE IF Below(Read(i).v, low_area(ModelTotal, area))
       THEN /\ i < ScanCap
            /\ i' = i + 1
            /\ UNCHANGED <<pc, low, ret>>
       ELSE /\ low' = i
            /\ pc' = "high_scan"
            /\ UNCHANGED <<i, ret>>
    /\ UNCHANGED <<fn, ys, cdf, fit, area, extra_width, args, terms, rs,
                   inputs, line, attempted>>

\* Lines 66-68: while integral(xs[i], *params) < high_area: i += 1 ; return
ModelHighScan ==
    /\ fn = "model_burst_range" /\ pc = "high_scan"
    /\ IF ~Read(i).ok
       THEN /\ ret' = Raise("IndexError")
            /\ pc' = "done"
            /\ UNCHANGED i
       ELSE IF Below(Read(i).v, high_area(ModelTotal, area))
       THEN /\ i < ScanCap
            /\ i' = i + 1
            /\ UNCHANGED <<pc, ret>>
       ELSE /\ ret' = Return(low, i)
            /\ pc' = "done"
            /\ UNCHANGED i
    /\ UNCHANGED <<fn, ys, cdf, fit, area, extra_width, low, args, terms, rs,
                   inputs, line, attempted>>

\* ------------------------------------------------- exgauss, integral
RangeStep == 3

\* A faulty stop: len(args), the trailing ts not left out.
RangeStopLen(a) == Len(a)

\* The stop of range(0, len(args)-1, 3).
RangeStop(a) == Len(a) - 1

\* range(0, stop, 3) as a sequence.
Range3(stop) == [j \in 1 .. ((stop + RangeStep - 1) \div RangeStep) |-> RangeStep * (j - 1)]

\* The arguments the lambda is called with after x: *args[k:k+3], args[-1].
TermArgs(a, k) == Slice(a, k, k + RangeStep) \o <<a[Len(a)]>>

\* The lambda takes a, u, sd, ts: any other count is a TypeError.
LambdaArity == 4

\* The terms exgauss(x, *a) sums (t), unless a call of the lambda is a
\* TypeError (ok = FALSE).
ExgaussTerms(a) ==
    LET t == [j \in 1 .. Len(Range3(RangeStop(a))) |->
                 TermArgs(a, Range3(RangeStop(a))[j])]
    IN  IF \A j \in 1 .. Len(t) : Len(t[j]) = LambdaArity
        THEN [ok |-> TRUE, t |-> t] ELSE [ok |-> FALSE, t |-> <<>>]

\* One step of the generator of exgauss / integral (utils.py lines 24, 32)
\* or of _plot's loop over the components (plot_fit.py lines 51-52), where
\* each component is drawn by a nested call exgauss(xs, *params[i:i+3],
\* params[-1]).
SumTerm ==
    /\ fn \in {"exgauss", "integral", "_plot"} /\ pc = "sum"
    /\ i < RangeStop(args)
    /\ LET call == IF fn = "_plot" THEN ExgaussTerms(TermArgs(args, i))
                   ELSE [ok |-> Len(TermArgs(args, i)) = LambdaArity,
                         t |-> <<TermArgs(args, i)>>]
           t == call.t
       IN  IF ~call.ok
           THEN /\ ret' = Raise("TypeError")
                /\ pc' = "done"
                /\ UNCHANGED <<i, terms>>
           ELSE /\ terms' = terms \o t
                /\ i' = i + RangeStep
                /\ UNCHANGED <<pc, ret>>
    /\ UNCHANGED <<fn, ys, cdf, fit, area, extra_width, low, args, rs, inputs,
                   line, attempted>>

\* The range is exhausted: the sum (or the figure) is complete.
SumDone ==
    /\ fn \in {"exgauss", "integral", "_plot"} /\ pc = "sum"
    /\ i >= RangeStop(args)
    /\ ret' = Return(0, Len(terms))
    /\ pc' = "done"
    /\ UNCHANGED <<fn, ys, cdf, fit, area, extra_width, i, low, args, terms,
                   rs, inputs, line, attempted>>

\* ------------------------------------------- rsquared, adjusted_rsquared
\* A float: an ordinary number n / d (d > 0), nan, inf or -inf.
Fin(n, d) == [k |-> "fin", n |-> n, d |-> d]

NaN == [k |-> "nan", n |-> 0, d |-> 1]

PInf == [k |-> "pinf", n |-> 0, d |-> 1]

NInf == [k |-> "ninf", n |-> 0, d |-> 1]

Neg(v) ==
    CASE v.k = "fin" -> Fin(0 - v.n, v.d)
      [] v.k = "pinf" -> NInf
      [] v.k = "ninf" -> PInf
      [] OTHER -> NaN

\* 1 - v
OneMinus(v) == IF v.k = "fin" THEN Fin(v.d - v.n, v.d) ELSE Neg(v)

\* v * m for an integer m
MulInt(v, m) ==
    CASE v.k = "fin" -> Fin(v.n * m, v.d)
      [] v.k = "nan" -> NaN
      [] OTHER -> IF m = 0 THEN NaN ELSE IF m > 0 THEN v ELSE Neg(v)

\* v / m for an integer m, as numpy divides a float64: a zero divisor gives
\* inf, -inf or nan (with a warning), never an exception.
DivInt(v, m) ==
    CASE v.k = "nan" -> NaN
      [] v.k = "fin" ->
           IF m = 0 THEN (IF v.n > 0 THEN PInf ELSE IF v.n < 0 THEN NInf ELSE NaN)
           ELSE IF m > 0 THEN Fin(v.n, v.d * m)
           ELSE Fin(0 - v.n, v.d * (0 - m))
      [] OTHER -> IF m >= 0 THEN v ELSE Neg(v)

\* a <= b as floats compare: false when either is nan.
Leq(a, b) ==
    /\ a.k # "nan" /\ b.k # "nan"
    /\ \/ a.k = "ninf"
       \/ b.k = "pinf"
       \/ a.k = "fin" /\ b.k = "fin" /\ a.n * b.d <= b.n * a.d

\* np.sum(residuals ** 2)
SsRes == SumSeq([j \in 1 .. Len(ys) |-> (ys[j] - fit[j]) * (ys[j] - fit[j])])

\* len(ys) * np.sum((ys - np.mean(ys)) ** 2)
SsTotN == Len(ys) * SumSeq([j \in 1 .. Len(ys) |-> ys[j] * ys[j]]) - SumSeq(ys) * SumSeq(ys)

\* 1 - ss_res / ss_tot
Rsquared == OneMinus(DivInt(Fin(Len(ys) * SsRes, 1), SsTotN))

\* 1 - (1 - rs) * (len(xs) - 1) / (len(xs) - len(params) - 1)
Adjusted(r, n, p) == OneMinus(DivInt(MulInt(OneMinus(r), n - 1), n - p - 1))

\* Line 85: rs = rsquared(xs, ys, params). exgauss is called once per x.
StatsRsquared ==
    /\ fn = "adjusted_rsquared" /\ pc = "rsquared"
    /\ IF Len(ys) > 0 /\ ~ExgaussTerms(args).ok
       THEN /\ ret' = Raise("TypeError")
            /\ pc' = "done"
            /\ UNCHANGED rs
       ELSE /\ rs' = Rsquared
            /\ pc' = "adjust"
            /\ UNCHANGED ret
    /\ UNCHANGED <<fn, ys, cdf, fit, area, extra_width, i, low, args, terms,
                   inputs, line, attempted>>

\* Line 86: the adjusted value is returned in ret.low.
StatsAdjust ==
    /\ fn = "adjusted_rsquared" /\ pc = "adjust"
    /\ ret' = Return(Adjusted(rs, Len(ys), Len(args)), 0)
    /\ pc' = "done"
    /\ UNCHANGED <<fn, ys, cdf, fit, area, extra_width, i, low, args, terms,
                   rs, inputs, line, attempted>>

\* ------------------------------------------------- plot_fit.py __main__
\* The names `from utils import *` binds: utils.py's top-level names.
UtilsNames ==
    {"exponnorm", "gaussian_filter", "np", "pickle", "globalpars", "plt",
     "basename", "confsmooth", "get_data", "exgauss", "integral",
     "raw_burst_range", "model_burst_range", "rsquared", "adjusted_rsquared",
     "plot_single_fit", "print_summary", "get_frb"}

\* The names plot_fit.py binds itself before line 84.
PlotFitNames ==
    {"np", "plt", "json", "plot_single_fit", "plot_residuals", "_plot",
     "plot_fitted", "ArgumentParser", "a"}

\* get_data returns a plain tuple: it has none of the record's attributes.
TupleAttrs == {"count", "index"}

FirstLine == 79

LoopLine == 88

ExitLine == 105

\* What is wrong with an input path, if anything.
Kinds == {"ok", "bad_data", "bad_json"}

\* The input the loop variable is bound to.
Current == inputs[attempted]

\* The exception the statement at line l raises, or "none".
Raises(l) ==
    CASE l = 84 -> IF "get_files" \in UtilsNames \cup PlotFitNames
                   THEN "none" ELSE "NameError"
      [] l = 92 -> IF Current = "bad_data" THEN "OSError" ELSE "none"
      [] l = 94 -> IF Current = "bad_json" THEN "OSError" ELSE "none"
      [] l = 99 -> IF "tmsarr" \in TupleAttrs THEN "none" ELSE "AttributeError"
      [] OTHER -> "none"

\* The statement executed after the one at line l completes.
NextLine(l) ==
    CASE l = 79 -> 81
      [] l = 81 -> 82
      [] l = 82 -> 83
      [] l = 83 -> 84
      [] l = 84 -> 86
      [] l = 86 -> LoopLine
      [] l = LoopLine -> IF attempted < Len(inputs) THEN 89 ELSE 104
      [] l = 89 -> 90
      [] l = 90 -> 92
      [] l = 92 -> 94
      [] l = 94 -> 97
      [] l = 97 -> 99
      [] l = 99 -> 101
      [] l = 101 -> LoopLine
      [] OTHER -> ExitLine

\* The exceptions some enclosing try statement of line l handles: there is
\* no try statement in plot_fit.py.
Handled(l) == {}

\* The statement at `line` completes; the for statement binds the next input.
MainStep ==
    /\ fn = "__main__" /\ pc = "run"
    /\ Raises(line) = "none"
    /\ line' = NextLine(line)
    /\ attempted' = IF line = LoopLine /\ attempted < Len(inputs)
                    THEN attempted + 1 ELSE attempted
    /\ IF NextLine(line) = ExitLine
       THEN pc' = "done" /\ ret' = Return(0, 0)
       ELSE UNCHANGED <<pc, ret>>
    /\ UNCHANGED <<fn, ys, cdf, fit, area, extra_width, i, low, args, terms,
                   rs, inputs>>

\* The statement at `line` raises and nothing handles it: the interpreter
\* prints the traceback and exits.
MainRaise ==
    /\ fn = "__main__" /\ pc = "run"
    /\ Raises(line) # "none"
    /\ Raises(line) \notin Handled(line)
    /\ ret' = Raise(Raises(line))
    /\ pc' = "done"
    /\ UNCHANGED <<fn, ys, cdf, fit, area, extra_width, i, low, args, terms,
                   rs, inputs, line, attempted>>

\* ---------------------------------------------------------------- Init
\* A parameter vector of length n whose elements are all different.
Tagged(n) == [j \in 1 .. n |-> j]

Zeros(n) == [j \in 1 .. n |-> 0]

InitRaw ==
    /\ fn = "raw_burst_range" /\ pc = "low_scan"
    /\ ys \in SeqsUpTo(Vals, MaxLen)
    /\ area \in 1 .. (AreaDen - 1)
    /\ extra_width \in 0 .. (EwDen + 1)
    /\ cdf = <<>> /\ fit = <<>> /\ args = <<>> /\ inputs = <<>>
    /\ line = 0

InitModel ==
    /\ fn = "model_burst_range" /\ pc = "start"
    /\ cdf \in SeqsUpTo(Vals, MaxLen)
    /\ area \in 1 .. (AreaDen - 1)
    /\ extra_width = 0
    /\ ys = <<>> /\ fit = <<>> /\ args = <<>> /\ inputs = <<>>
    /\ line = 0

InitSum ==
    /\ fn \in {"exgauss", "integral", "_plot"} /\ pc = "sum"
    /\ args \in {Tagged(n) : n \in 0 .. MaxArgs}
    /\ area = 1 /\ extra_width = 0
    /\ ys = <<>> /\ cdf = <<>> /\ fit = <<>> /\ inputs = <<>>
    /\ line = 0

\* exgauss sums nothing and returns 0 when the vector holds no component.
InitStats ==
    /\ fn = "adjusted_rsquared" /\ pc = "rsquared"
    /\ ys \in SeqsUpTo(StatVals, MaxLen)
    /\ args \in {Tagged(n) : n \in 0 .. MaxArgs}
    /\ fit \in IF ExgaussTerms(args).t = <<>>
               THEN {Zeros(Len(ys))}
               ELSE [1 .. Len(ys) -> StatVals]
    /\ area = 1 /\ extra_width = 0
    /\ cdf = <<>> /\ inputs = <<>>
    /\ line = 0

InitMain ==
    /\ fn = "__main__" /\ pc = "run"
    /\ inputs \in SeqsUpTo(Kinds, MaxInputs)
    /\ line = FirstLine
    /\ area = 1 /\ extra_width = 0
    /\ ys = <<>> /\ cdf = <<>> /\ fit = <<>> /\ args = <<>>

Init ==
    /\ \/ InitRaw
       \/ InitModel
       \/ InitSum
       \/ InitStats
       \/ InitMain
    /\ i = 0 /\ low = 0 /\ ret = NoRet /\ terms = <<>>
    /\ rs = NaN
    /\ attempted = 0

Next ==
    \/ RawLowScan
    \/ RawHighScan
    \/ ModelStart
    \/ ModelLowScan
    \/ ModelHighScan
    \/ SumTerm
    \/ SumDone
    \/ StatsRsquared
    \/ StatsAdjust
    \/ MainStep
    \/ MainRaise

Spec == Init /\ [][Next]_vars

\* ------------------------------------------------------------- claims
RawDone == fn = "raw_burst_range" /\ pc = "done"

ModelDone == fn = "model_burst_range" /\ pc = "done"

StatsDone == fn = "adjusted_rsquared" /\ pc = "done"

SumDoneState == fn \in {"exgauss", "integral", "_plot"} /\ pc = "done"

NonDecreasing(s) == \A j \in 1 .. (Len(s) - 1) : s[j] <= s[j + 1]

\* c[k] for a 0-based k
At(s, k) == s[k + 1]

\* The smallest 0-based index whose value, scaled by 2 * AreaDen, reaches t.
IsFirstReaching(s, k, t) ==
    /\ k \in 0 .. (Len(s) - 1)
    /\ 2 * AreaDen * At(s, k) >= t
    /\ \A j \in 0 .. (k - 1) : 2 * AreaDen * At(s, j) < t

\* C1: raw_burst_range on an empty or an all-zero intensity array ends in an
\* error, not in a returned (low, high) pair.
C1_ZeroAreaSignalsError ==
    (RawDone /\ \A j \in 1 .. Len(ys) : ys[j] = 0) => ret.kind = "error"

\* C2: raw_burst_range terminates on every array and every area fraction:
\* the scan index never passes len(ys), and until the call has returned a
\* step is always possible.
C2_RawScanTerminates ==
    fn = "raw_burst_range" =>
        /\ i <= Len(ys)
        /\ pc = "done" \/ ENABLED Next
        /\ pc = "done" => ret.kind \in {"return", "error"}

\* C2's case: a scan over an array with a negative sample that ran to the
\* end of the array before it returned.
C2_Witness ==
    /\ RawDone
    /\ \E j \in 1 .. Len(ys) : ys[j] < 0
    /\ Len(ys) >= 3 /\ i = Len(ys)

C4_LowBelowHigh ==
    (/\ pc = "done" /\ ret.kind = "return"
     /\ \/ fn = "raw_burst_range" /\ Trapz2(ys) > 0
        \/ fn = "model_burst_range" /\ cdf[Len(cdf)] > 0)
    => ret.low < ret.high

\* C5: adjusted_rsquared <= rsquared for every sample count and parameter
\* count, with equality only when there are no parameters.
C5_AdjustedAtMostRsquared ==
    (StatsDone /\ ret.kind = "return" /\ rs.k = "fin")
    => /\ Leq(ret.low, rs)
       /\ Leq(rs, ret.low) => Len(args) = 0

\* C6: adjusted_rsquared fails when n - p - 1 <= 0: the outcome is an error
\* or NaN, never a finite or infinite number.
C6_DegenerateFails ==
    (StatsDone /\ Len(ys) - Len(args) - 1 <= 0)
    => \/ ret.kind = "error"
       \/ ret.kind = "return" /\ ret.low.k = "nan"

\* C7: on a parameter vector of length 3k+1, k >= 1, exgauss, integral and
\* _plot build exactly k terms, term t from args[3t], args[3t+1], args[3t+2]
\* (0-based) and the trailing args[-1].
C7_TermsAreTheTriples ==
    (SumDoneState /\ Len(args) >= 4 /\ (Len(args) - 1) % 3 = 0)
    => /\ ret.kind = "return"
       /\ Len(terms) = (Len(args) - 1) \div 3
       /\ \A t \in 1 .. Len(terms) :
            terms[t] = <<args[3 * t - 2], args[3 * t - 1], args[3 * t],
                         args[Len(args)]>>

\* C7's case: _plot has drawn the two components of a vector of length 7.
C7_Witness ==
    /\ SumDoneState /\ fn = "_plot"
    /\ Len(args) = 7 /\ Len(terms) = 2 /\ ret.kind = "return"

\* C8: every input of the batch is attempted, whatever fails before it.
C8_EveryInputAttempted ==
    (fn = "__main__" /\ pc = "done") => attempted = Len(inputs)

\* The width added on each side, scaled by EwDen.
Widening == (i - low) * extra_width

\* C9 as stated: on positive total area both returned bounds lie in
\* [0, len(ys)): the upper bound is never at or beyond len(ys).
C9_BoundsBelowLength ==
    (RawDone /\ Trapz2(ys) > 0)
    => /\ ret.kind = "return"
       /\ 0 <= ret.low
       /\ ret.high < Len(ys) * EwDen

\* C9 as amended: on positive total area raw_burst_range returns the located
\* window widened by w on each side and clamped to [0, len(ys)]: the lower
\* bound is low - w or 0 and never below 0, the upper bound is high + w or
\* len(ys) and never beyond len(ys).
C9_BoundsClamped ==
    (RawDone /\ Trapz2(ys) > 0)
    => /\ ret.kind = "return"
       /\ 0 <= ret.low
       /\ ret.high <= Len(ys) * EwDen
       /\ ret.low \in {0, low * EwDen - Widening}
       /\ ret.high \in {Len(ys) * EwDen, i * EwDen + Widening}
       /\ ret.low <= low * EwDen
       /\ ret.high >= i * EwDen

\* C9's case: a widened window whose upper bound was clamped to len(ys).
C9_Witness ==
    /\ RawDone /\ Trapz2(ys) > 0 /\ ret.kind = "return"
    /\ Widening > 0 /\ i < Len(ys)
    /\ i * EwDen + Widening > Len(ys) * EwDen
    /\ ret.high = Len(ys) * EwDen

\* C10: model_burst_range never returns an index outside [0, len(xs)-1]:
\* it returns two valid positions or ends in an IndexError (always so on an
\* empty xs), and the scan index never passes len(xs).
C10_IndicesValidOrError ==
    fn = "model_burst_range" =>
        /\ i <= Len(cdf)
        /\ pc = "done" =>
             \/ ret.kind = "error" /\ ret.exc = "IndexError"
             \/ /\ ret.kind = "return"
                /\ 0 <= ret.low /\ ret.low <= ret.high
                /\ ret.high <= Len(cdf) - 1
        /\ (pc = "done" /\ Len(cdf) = 0) => ret.kind = "error"

\* C10's case: the scan ran off the end of a non-empty xs and signalled.
C10_Witness ==
    /\ ModelDone /\ Len(cdf) > 0 /\ i = Len(cdf)
    /\ ret.kind = "error"

==========================================================================
